---- MODULE Spec2Model ----
(***************************************************************************)
(* A model of the 2D bin packing library acmacalister/binpacking.          *)
(*                                                                         *)
(* Boxes, bins and packers are heap objects of the Go program; they are    *)
(* modelled as records addressed by a stable index (1..NBoxes, 1..NBins,   *)
(* 1..NPackers), the index standing for the pointer.  Nil is the nil       *)
(* pointer.  Every exported operation the properties are about is one      *)
(* action; the code it runs is a set of operators translated from the      *)
(* source function of the same name.                                       *)
(***************************************************************************)
EXTENDS Integers, Sequences, FiniteSets, TLC

\* ------------------------------------------------------------------ bounds
\* Largest width / height given to NewBox (0 is included: NewBox accepts it);
\* the bins are sized after it.
MaxDim == 2
\* Longest list of boxes handed to one Pack call.
MaxInput == 2
\* Largest Limit handed to Pack (-1 and 0 are always tried as well).
MaxLimit == 1
\* In the packing specification: Bin.Insert calls the caller makes before it
\* packs, and Pack calls it makes after them.
MaxSetup == 1
MaxPacks == 1
\* The calls of a behaviour of the calls specification.
MaxCalls == 2
\* The changes the caller makes to the slices it gave to NewPacker.
MaxWrites == 1

\* Number of boxes, bins and packers the caller has constructed.
NBoxes == 3
NBins == 2
NPackers == 2

\* The nil pointer.
Nil == 0

\* math.MaxInt64 and math.MaxFloat64.  TLC's integers are 32 bits wide, so the
\* two sentinels are scaled down; what the code depends on is kept: every real
\* score is below MaxInt64, and float64(MaxInt64) is below MaxFloat64.
MaxInt64 == 2147483646
MaxFloat64 == 2147483647

BoxIds == 1..NBoxes
BinIds == 1..NBins
PackerIds == 1..NPackers

Strategies == {"BestAreaFit", "BestShortSideFit", "BestLongSideFit", "BottomLeft"}

VARIABLES
    boxes,      \* [BoxIds -> Box]: the heap of Box objects
    bins,       \* [BinIds -> Bin]: the heap of Bin objects
    packers,    \* [PackerIds -> Packer]
    created,    \* [BoxIds -> <<width, height>>]: the arguments NewBox was given
    calls,      \* how many Insert and Pack calls the caller has made (packing spec)
    slices,     \* [PackerIds -> the slice of bins the caller gave to NewPacker]
    last        \* the call made by the last step, with what it returned

vars == <<boxes, bins, packers, created, calls, slices, last>>

\* ------------------------------------------------------------------ box.go
FreeSpaceBox(x, y, width, height) ==
    [X |-> x, Y |-> y, Width |-> width, Height |-> height]

NewBox(width, height, constrainRotation) ==
    [Width |-> width, Height |-> height, ConstrainRotation |-> constrainRotation,
     X |-> 0, Y |-> 0, Packed |-> FALSE]

\* Rotate that leaves the dimensions as they are.
Rotate_NoSwap(b) == b

Rotate(b) == [b EXCEPT !.Width = b.Height, !.Height = b.Width]

BoxArea(b) == b.Width * b.Height

\* ------------------------------------------------------- placement strategies
abs(x) == IF x < 0 THEN -x ELSE x

min(x, y) == IF x < y THEN x ELSE y

max(x, y) == IF x > y THEN x ELSE y

BestAreaFit(freeSpace, rectWidth, rectHeight) ==
    LET areaFit == freeSpace.Width * freeSpace.Height - rectWidth * rectHeight
        leftOverHoriz == abs(freeSpace.Width - rectWidth)
        leftOverVert == abs(freeSpace.Height - rectHeight)
        shortSideFit == min(leftOverHoriz, leftOverVert)
    IN  areaFit + shortSideFit

\* BestShortSideFit that scores by the smaller gap instead of the sum of both.
BestShortSideFit_ShorterGap(freeSpace, rectWidth, rectHeight) ==
    LET leftOverHoriz == abs(freeSpace.Width - rectWidth)
        leftOverVert == abs(freeSpace.Height - rectHeight)
    IN  min(leftOverHoriz, leftOverVert)

BestShortSideFit(freeSpace, rectWidth, rectHeight) ==
    LET leftOverHoriz == abs(freeSpace.Width - rectWidth)
        leftOverVert == abs(freeSpace.Height - rectHeight)
    IN  leftOverHoriz + leftOverVert

BestLongSideFit(freeSpace, rectWidth, rectHeight) ==
    LET leftOverHoriz == abs(freeSpace.Width - rectWidth)
        leftOverVert == abs(freeSpace.Height - rectHeight)
    IN  max(leftOverHoriz, leftOverVert)

BottomLeft(freeSpace, rectWidth, rectHeight) ==
    freeSpace.Y + freeSpace.X + rectHeight

\* A call through a PlacementStrategyFunc value: the bin stores the name of the
\* function it was given.
PlacementStrategyFunc(placement, freeSpace, rectWidth, rectHeight) ==
    CASE placement = "BestAreaFit" -> BestAreaFit(freeSpace, rectWidth, rectHeight)
      [] placement = "BestShortSideFit" -> BestShortSideFit(freeSpace, rectWidth, rectHeight)
      [] placement = "BestLongSideFit" -> BestLongSideFit(freeSpace, rectWidth, rectHeight)
      [] placement = "BottomLeft" -> BottomLeft(freeSpace, rectWidth, rectHeight)

\* ----------------------------------------------------------- placement search
\* PlacementInfo; ChosenSpace is the index of the chosen element of freeSpaces
\* (the list never holds one pointer twice), Nil when nothing fits.
PlacementInfo(score, chosen, x, y, needsRotation, fits) ==
    [Score |-> score, ChosenSpace |-> chosen, X |-> x, Y |-> y,
     NeedsRotation |-> needsRotation, Fits |-> fits]

\* The loop body that takes the rotated orientation on an equal score as well.
TryFreeSpace_PrefersRotated(box, freeSpaces, placement, i, bestInfo) ==
    LET freeSpace == freeSpaces[i]
        scoreO == PlacementStrategyFunc(placement, freeSpace, box.Width, box.Height)
        afterO ==
            IF /\ freeSpace.Width >= box.Width
               /\ freeSpace.Height >= box.Height
               /\ scoreO < bestInfo.Score
            THEN PlacementInfo(scoreO, i, freeSpace.X, freeSpace.Y, FALSE, TRUE)
            ELSE bestInfo
        scoreR == PlacementStrategyFunc(placement, freeSpace, box.Height, box.Width)
    IN  IF /\ ~box.ConstrainRotation
           /\ box.Width # box.Height
           /\ freeSpace.Width >= box.Height
           /\ freeSpace.Height >= box.Width
           /\ scoreR <= afterO.Score
        THEN PlacementInfo(scoreR, i, freeSpace.X, freeSpace.Y, TRUE, TRUE)
        ELSE afterO

\* The loop body without the ConstrainRotation test on the rotated orientation.
TryFreeSpace_IgnoresConstraint(box, freeSpaces, placement, i, bestInfo) ==
    LET freeSpace == freeSpaces[i]
        scoreO == PlacementStrategyFunc(placement, freeSpace, box.Width, box.Height)
        afterO ==
            IF /\ freeSpace.Width >= box.Width
               /\ freeSpace.Height >= box.Height
               /\ scoreO < bestInfo.Score
            THEN PlacementInfo(scoreO, i, freeSpace.X, freeSpace.Y, FALSE, TRUE)
            ELSE bestInfo
        scoreR == PlacementStrategyFunc(placement, freeSpace, box.Height, box.Width)
    IN  IF /\ box.Width # box.Height
           /\ freeSpace.Width >= box.Height
           /\ freeSpace.Height >= box.Width
           /\ scoreR < afterO.Score
        THEN PlacementInfo(scoreR, i, freeSpace.X, freeSpace.Y, TRUE, TRUE)
        ELSE afterO

\* One iteration of the loop of FindBestPlacement, on freeSpaces[i].
TryFreeSpace(box, freeSpaces, placement, i, bestInfo) ==
    LET freeSpace == freeSpaces[i]
        scoreO == PlacementStrategyFunc(placement, freeSpace, box.Width, box.Height)
        afterO ==
            IF /\ freeSpace.Width >= box.Width
               /\ freeSpace.Height >= box.Height
               /\ scoreO < bestInfo.Score
            THEN PlacementInfo(scoreO, i, freeSpace.X, freeSpace.Y, FALSE, TRUE)
            ELSE bestInfo
        scoreR == PlacementStrategyFunc(placement, freeSpace, box.Height, box.Width)
    IN  IF /\ ~box.ConstrainRotation
           /\ box.Width # box.Height
           /\ freeSpace.Width >= box.Height
           /\ freeSpace.Height >= box.Width
           /\ scoreR < afterO.Score
        THEN PlacementInfo(scoreR, i, freeSpace.X, freeSpace.Y, TRUE, TRUE)
        ELSE afterO

RECURSIVE FindFrom(_, _, _, _, _)
FindFrom(box, freeSpaces, placement, i, bestInfo) ==
    IF i > Len(freeSpaces)
    THEN bestInfo
    ELSE FindFrom(box, freeSpaces, placement, i + 1,
                  TryFreeSpace(box, freeSpaces, placement, i, bestInfo))

\* FindBestPlacement that looks at the first free rectangle only.
FindBestPlacement_FirstSpaceOnly(box, freeSpaces, placement) ==
    IF freeSpaces = <<>>
    THEN PlacementInfo(MaxInt64, Nil, 0, 0, FALSE, FALSE)
    ELSE TryFreeSpace(box, freeSpaces, placement, 1,
                      PlacementInfo(MaxInt64, Nil, 0, 0, FALSE, FALSE))

FindBestPlacement(box, freeSpaces, placement) ==
    FindFrom(box, freeSpaces, placement, 1,
             PlacementInfo(MaxInt64, Nil, 0, 0, FALSE, FALSE))

\* ------------------------------------------------------------------ bin.go
\* A nil PlacementStrategyFunc.
NilFunc == "nil"

NewBin(width, height, placement) ==
    [Width |-> width, Height |-> height, Boxes |-> <<>>,
     Placement |-> IF placement = NilFunc THEN "BestShortSideFit" ELSE placement,
     FreeSpaces |-> <<FreeSpaceBox(0, 0, width, height)>>]

BinArea(b) == b.Width * b.Height

\* The loop of Efficiency: the summed area of the boxes in the placed list
\* boxList, read from the heap X.
RECURSIVE boxesArea(_, _)
boxesArea(boxList, X) ==
    IF boxList = <<>>
    THEN 0
    ELSE BoxArea(X[Head(boxList)]) + boxesArea(Tail(boxList), X)

\* isContainedIn that compares the bottom-right corners only.
isContainedIn_FarCornerOnly(rectA, rectB) ==
    /\ rectA.X + rectA.Width <= rectB.X + rectB.Width
    /\ rectA.Y + rectA.Height <= rectB.Y + rectB.Height

isContainedIn(rectA, rectB) ==
    /\ rectA.X >= rectB.X
    /\ rectA.Y >= rectB.Y
    /\ rectA.X + rectA.Width <= rectB.X + rectB.Width
    /\ rectA.Y + rectA.Height <= rectB.Y + rectB.Height

\* generateSplits whose right slice keeps the width of the free node.
generateSplits_RightKeepsWidth(freeNode, usedNode) ==
    IF \/ usedNode.X >= freeNode.X + freeNode.Width
       \/ usedNode.X + usedNode.Width <= freeNode.X
       \/ usedNode.Y >= freeNode.Y + freeNode.Height
       \/ usedNode.Y + usedNode.Height <= freeNode.Y
    THEN <<>>
    ELSE
      LET usedBottomY == usedNode.Y + usedNode.Height
          freeBottomY == freeNode.Y + freeNode.Height
          usedRightX == usedNode.X + usedNode.Width
          freeRightX == freeNode.X + freeNode.Width
          vertical ==
              usedNode.X < freeNode.X + freeNode.Width /\ usedNode.X + usedNode.Width > freeNode.X
          horizontal ==
              usedNode.Y < freeNode.Y + freeNode.Height /\ usedNode.Y + usedNode.Height > freeNode.Y
          top == IF vertical /\ usedNode.Y > freeNode.Y
                 THEN <<[freeNode EXCEPT !.Height = usedNode.Y - freeNode.Y]>>
                 ELSE <<>>
          bottom == IF vertical /\ usedBottomY < freeBottomY
                    THEN <<[freeNode EXCEPT !.Y = usedBottomY,
                                            !.Height = freeBottomY - usedBottomY]>>
                    ELSE <<>>
          left == IF horizontal /\ usedNode.X > freeNode.X
                  THEN <<[freeNode EXCEPT !.Width = usedNode.X - freeNode.X]>>
                  ELSE <<>>
          right == IF horizontal /\ usedRightX < freeRightX
                   THEN <<[freeNode EXCEPT !.X = usedRightX]>>
                   ELSE <<>>
      IN  top \o bottom \o left \o right

\* generateSplits whose bottom slice begins at the top edge of the used node.
generateSplits_BottomFromTop(freeNode, usedNode) ==
    IF \/ usedNode.X >= freeNode.X + freeNode.Width
       \/ usedNode.X + usedNode.Width <= freeNode.X
       \/ usedNode.Y >= freeNode.Y + freeNode.Height
       \/ usedNode.Y + usedNode.Height <= freeNode.Y
    THEN <<>>
    ELSE
      LET usedBottomY == usedNode.Y + usedNode.Height
          freeBottomY == freeNode.Y + freeNode.Height
          usedRightX == usedNode.X + usedNode.Width
          freeRightX == freeNode.X + freeNode.Width
          vertical ==
              usedNode.X < freeNode.X + freeNode.Width /\ usedNode.X + usedNode.Width > freeNode.X
          horizontal ==
              usedNode.Y < freeNode.Y + freeNode.Height /\ usedNode.Y + usedNode.Height > freeNode.Y
          top == IF vertical /\ usedNode.Y > freeNode.Y
                 THEN <<[freeNode EXCEPT !.Height = usedNode.Y - freeNode.Y]>>
                 ELSE <<>>
          bottom == IF vertical /\ usedBottomY < freeBottomY
                    THEN <<[freeNode EXCEPT !.Y = usedNode.Y,
                                            !.Height = freeBottomY - usedNode.Y]>>
                    ELSE <<>>
          left == IF horizontal /\ usedNode.X > freeNode.X
                  THEN <<[freeNode EXCEPT !.Width = usedNode.X - freeNode.X]>>
                  ELSE <<>>
          right == IF horizontal /\ usedRightX < freeRightX
                   THEN <<[freeNode EXCEPT !.X = usedRightX,
                                           !.Width = freeRightX - usedRightX]>>
                   ELSE <<>>
      IN  top \o bottom \o left \o right

generateSplits(freeNode, usedNode) ==
    IF \/ usedNode.X >= freeNode.X + freeNode.Width
       \/ usedNode.X + usedNode.Width <= freeNode.X
       \/ usedNode.Y >= freeNode.Y + freeNode.Height
       \/ usedNode.Y + usedNode.Height <= freeNode.Y
    THEN <<>>
    ELSE
      LET usedBottomY == usedNode.Y + usedNode.Height
          freeBottomY == freeNode.Y + freeNode.Height
          usedRightX == usedNode.X + usedNode.Width
          freeRightX == freeNode.X + freeNode.Width
          vertical ==
              usedNode.X < freeNode.X + freeNode.Width /\ usedNode.X + usedNode.Width > freeNode.X
          horizontal ==
              usedNode.Y < freeNode.Y + freeNode.Height /\ usedNode.Y + usedNode.Height > freeNode.Y
          top == IF vertical /\ usedNode.Y > freeNode.Y
                 THEN <<[freeNode EXCEPT !.Height = usedNode.Y - freeNode.Y]>>
                 ELSE <<>>
          bottom == IF vertical /\ usedBottomY < freeBottomY
                    THEN <<[freeNode EXCEPT !.Y = usedBottomY,
                                            !.Height = freeBottomY - usedBottomY]>>
                    ELSE <<>>
          left == IF horizontal /\ usedNode.X > freeNode.X
                  THEN <<[freeNode EXCEPT !.Width = usedNode.X - freeNode.X]>>
                  ELSE <<>>
          right == IF horizontal /\ usedRightX < freeRightX
                   THEN <<[freeNode EXCEPT !.X = usedRightX,
                                           !.Width = freeRightX - usedRightX]>>
                   ELSE <<>>
      IN  top \o bottom \o left \o right

\* The loop of pruneFreeList from index i on: FreeSpaces[i] is kept unless some
\* other element of the (unpruned) list contains it.
RECURSIVE PruneFrom(_, _)
PruneFrom(freeSpaces, i) ==
    IF i > Len(freeSpaces)
    THEN <<>>
    ELSE LET isContained ==
                 \E j \in 1..Len(freeSpaces) :
                     j # i /\ isContainedIn(freeSpaces[i], freeSpaces[j])
         IN  (IF isContained THEN <<>> ELSE <<freeSpaces[i]>>)
                 \o PruneFrom(freeSpaces, i + 1)

\* Insert without the pruning pass.
pruneFreeList_Skipped(freeSpaces) == freeSpaces

pruneFreeList(freeSpaces) == PruneFrom(freeSpaces, 1)

\* The rebuilding loop without its else branch: only the splits are kept.
RECURSIVE SplitChosen_DropsRest(_, _, _, _)
SplitChosen_DropsRest(freeSpaces, chosen, box, i) ==
    IF i > Len(freeSpaces)
    THEN <<>>
    ELSE (IF i = chosen THEN generateSplits(freeSpaces[i], box) ELSE <<>>)
             \o SplitChosen_DropsRest(freeSpaces, chosen, box, i + 1)

\* The loop of Insert that rebuilds FreeSpaces: the chosen free space is
\* replaced by its splits, every other one is kept.
RECURSIVE SplitChosen(_, _, _, _)
SplitChosen(freeSpaces, chosen, box, i) ==
    IF i > Len(freeSpaces)
    THEN <<>>
    ELSE (IF i = chosen
          THEN generateSplits(freeSpaces[i], box)
          ELSE <<freeSpaces[i]>>)
             \o SplitChosen(freeSpaces, chosen, box, i + 1)

\* Insert without the test of box.Packed.
Insert_NoGuard(b, box, id) ==
    LET placement == FindBestPlacement(box, b.FreeSpaces, b.Placement)
        placed == [box EXCEPT !.X = placement.X, !.Y = placement.Y, !.Packed = TRUE]
        rotated == IF placement.NeedsRotation THEN Rotate(placed) ELSE placed
        newFreeSpaces == SplitChosen(b.FreeSpaces, placement.ChosenSpace, rotated, 1)
    IN  IF ~placement.Fits
        THEN [ok |-> FALSE, bin |-> b, box |-> box, rot |-> FALSE]
        ELSE [ok |-> TRUE,
              bin |-> [b EXCEPT !.FreeSpaces = pruneFreeList(newFreeSpaces),
                                !.Boxes = Append(b.Boxes, id)],
              box |-> rotated,
              rot |-> placement.NeedsRotation]

\* Insert that marks the box as packed before it looks for a placement.
Insert_MarksEarly(b, box, id) ==
    LET placement == FindBestPlacement(box, b.FreeSpaces, b.Placement)
        placed == [box EXCEPT !.X = placement.X, !.Y = placement.Y, !.Packed = TRUE]
        rotated == IF placement.NeedsRotation THEN Rotate(placed) ELSE placed
        newFreeSpaces == SplitChosen(b.FreeSpaces, placement.ChosenSpace, rotated, 1)
    IN  IF box.Packed
        THEN [ok |-> FALSE, bin |-> b, box |-> box, rot |-> FALSE]
        ELSE IF ~placement.Fits
        THEN [ok |-> FALSE, bin |-> b, box |-> [box EXCEPT !.Packed = TRUE], rot |-> FALSE]
        ELSE [ok |-> TRUE,
              bin |-> [b EXCEPT !.FreeSpaces = pruneFreeList(newFreeSpaces),
                                !.Boxes = Append(b.Boxes, id)],
              box |-> rotated,
              rot |-> placement.NeedsRotation]

\* Insert that places the box without setting its Packed flag.
Insert_LeavesFlag(b, box, id) ==
    LET placement == FindBestPlacement(box, b.FreeSpaces, b.Placement)
        placed == [box EXCEPT !.X = placement.X, !.Y = placement.Y]
        rotated == IF placement.NeedsRotation THEN Rotate(placed) ELSE placed
        newFreeSpaces == SplitChosen(b.FreeSpaces, placement.ChosenSpace, rotated, 1)
    IN  IF box.Packed
        THEN [ok |-> FALSE, bin |-> b, box |-> box, rot |-> FALSE]
        ELSE IF ~placement.Fits
        THEN [ok |-> FALSE, bin |-> b, box |-> box, rot |-> FALSE]
        ELSE [ok |-> TRUE,
              bin |-> [b EXCEPT !.FreeSpaces = pruneFreeList(newFreeSpaces),
                                !.Boxes = Append(b.Boxes, id)],
              box |-> rotated,
              rot |-> placement.NeedsRotation]

\* Bin.Insert on the bin record b and the box record box, whose pointer is id.
\* The result holds the return value and both objects as the call leaves them.
Insert(b, box, id) ==
    LET placement == FindBestPlacement(box, b.FreeSpaces, b.Placement)
        placed == [box EXCEPT !.X = placement.X, !.Y = placement.Y, !.Packed = TRUE]
        rotated == IF placement.NeedsRotation THEN Rotate(placed) ELSE placed
        newFreeSpaces == SplitChosen(b.FreeSpaces, placement.ChosenSpace, rotated, 1)
    IN  IF box.Packed
        THEN [ok |-> FALSE, bin |-> b, box |-> box, rot |-> FALSE]
        ELSE IF ~placement.Fits
        THEN [ok |-> FALSE, bin |-> b, box |-> box, rot |-> FALSE]
        ELSE [ok |-> TRUE,
              bin |-> [b EXCEPT !.FreeSpaces = pruneFreeList(newFreeSpaces),
                                !.Boxes = Append(b.Boxes, id)],
              box |-> rotated,
              rot |-> placement.NeedsRotation]

\* ScoreFor whose copy of the box allows rotation whatever the box says.
ScoreFor_IgnoresConstraint(b, box) ==
    LET copyBox == NewBox(box.Width, box.Height, FALSE)
        placement == FindBestPlacement(copyBox, b.FreeSpaces, b.Placement)
    IN  placement.Score

ScoreFor(b, box) ==
    LET copyBox == NewBox(box.Width, box.Height, box.ConstrainRotation)
        placement == FindBestPlacement(copyBox, b.FreeSpaces, b.Placement)
    IN  placement.Score

\* ScoreFor that tries the orientations on the box it is given, not on a copy.
ScoreForRun_OnOriginal(b, box) ==
    LET placement == FindBestPlacement(box, b.FreeSpaces, b.Placement)
    IN  [score |-> placement.Score, bin |-> b,
         box |-> IF placement.NeedsRotation THEN Rotate(box) ELSE box]

\* A call of Bin.ScoreFor on the bin record b and the box record box: the
\* score returned and both objects as the call leaves them.  The search runs
\* on copyBox and writes to neither object.
ScoreForRun(b, box) ==
    LET copyBox == NewBox(box.Width, box.Height, box.ConstrainRotation)
        placement == FindBestPlacement(copyBox, b.FreeSpaces, b.Placement)
    IN  [score |-> placement.Score, bin |-> b, box |-> box]

\* IsLargerThan without the rotated orientation.
IsLargerThan_NoRotation(b, box) ==
    LET canFitOriginal == b.Width >= box.Width /\ b.Height >= box.Height
    IN  canFitOriginal

IsLargerThan(b, box) ==
    LET canFitOriginal == b.Width >= box.Width /\ b.Height >= box.Height
        canFitRotated ==
            ~box.ConstrainRotation /\ b.Height >= box.Width /\ b.Width >= box.Height
    IN  canFitOriginal \/ canFitRotated

\* ------------------------------------------------- score_board_entry.go
\* An entry holds the pointers of its bin and box and the cached score.
NewScoreBoardEntry(bin, box) == [Bin |-> bin, Box |-> box, Score |-> MaxFloat64]

\* Calculate on entry; B and X are the heaps of bins and boxes it reads.  The
\* int64 that Bin.ScoreFor returns is stored in the float64 Score field.
Calculate(entry, B, X) ==
    IF entry.Bin = Nil \/ entry.Box = Nil
    THEN [entry EXCEPT !.Score = MaxFloat64]
    ELSE [entry EXCEPT !.Score = ScoreFor(B[entry.Bin], X[entry.Box])]

Fit(entry) == entry.Score < MaxFloat64

\* ------------------------------------------------------- score_board.go
RECURSIVE addBinEntries(_, _, _, _, _)
addBinEntries(entries, bin, boxList, B, X) ==
    IF boxList = <<>>
    THEN entries
    ELSE LET box == Head(boxList)
         IN  IF bin = Nil \/ box = Nil
             THEN addBinEntries(entries, bin, Tail(boxList), B, X)
             ELSE addBinEntries(Append(entries, Calculate(NewScoreBoardEntry(bin, box), B, X)),
                                bin, Tail(boxList), B, X)

\* The loop of NewScoreBoard over the bins still to enrol.
RECURSIVE EnrolBins(_, _, _, _, _)
EnrolBins(entries, binList, boxList, B, X) ==
    IF binList = <<>>
    THEN entries
    ELSE EnrolBins(addBinEntries(entries, Head(binList), boxList, B, X),
                   Tail(binList), boxList, B, X)

\* The Entries of the scoreboard NewScoreBoard returns.
NewScoreBoard(binList, boxList, B, X) == EnrolBins(<<>>, binList, boxList, B, X)

\* The set of boxes CurrentBoxes returns; the slice it builds lists them in the
\* iteration order of a Go map, which is unspecified.
CurrentBoxes(entries) == {entries[i].Box : i \in DOMAIN entries} \ {Nil}

\* The loop of BestFit that replaces the best entry on an equal score as well.
RECURSIVE BestFrom_LastWins(_, _, _)
BestFrom_LastWins(entries, i, bestEntry) ==
    IF i > Len(entries)
    THEN bestEntry
    ELSE IF ~Fit(entries[i])
    THEN BestFrom_LastWins(entries, i + 1, bestEntry)
    ELSE IF bestEntry = Nil
    THEN BestFrom_LastWins(entries, i + 1, i)
    ELSE IF entries[i].Score <= entries[bestEntry].Score
    THEN BestFrom_LastWins(entries, i + 1, i)
    ELSE BestFrom_LastWins(entries, i + 1, bestEntry)

\* The loop of BestFit with the score comparison turned round.
RECURSIVE BestFrom_PrefersWorse(_, _, _)
BestFrom_PrefersWorse(entries, i, bestEntry) ==
    IF i > Len(entries)
    THEN bestEntry
    ELSE IF ~Fit(entries[i])
    THEN BestFrom_PrefersWorse(entries, i + 1, bestEntry)
    ELSE IF bestEntry = Nil
    THEN BestFrom_PrefersWorse(entries, i + 1, i)
    ELSE IF entries[i].Score > entries[bestEntry].Score
    THEN BestFrom_PrefersWorse(entries, i + 1, i)
    ELSE BestFrom_PrefersWorse(entries, i + 1, bestEntry)

\* The loop of BestFit from entry i on; bestEntry is an index into entries,
\* Nil while no fitting entry has been seen.
RECURSIVE BestFrom(_, _, _)
BestFrom(entries, i, bestEntry) ==
    IF i > Len(entries)
    THEN bestEntry
    ELSE IF ~Fit(entries[i])
    THEN BestFrom(entries, i + 1, bestEntry)
    ELSE IF bestEntry = Nil
    THEN BestFrom(entries, i + 1, i)
    ELSE IF entries[i].Score < entries[bestEntry].Score
    THEN BestFrom(entries, i + 1, i)
    ELSE BestFrom(entries, i + 1, bestEntry)

\* BestFit that returns the first entry that fits, whatever its score.
BestFit_FirstFit(entries) ==
    IF \E i \in DOMAIN entries : Fit(entries[i])
    THEN CHOOSE i \in DOMAIN entries :
             Fit(entries[i]) /\ \A j \in 1..(i - 1) : ~Fit(entries[j])
    ELSE Nil

BestFit(entries) == BestFrom(entries, 1, Nil)

KeepsBox(entry, boxToRemove) == entry.Box # boxToRemove

\* RemoveBox that removes the first entry of the box only.
RemoveBox_FirstOnly(entries, boxToRemove) ==
    IF \E i \in DOMAIN entries : entries[i].Box = boxToRemove
    THEN LET first == CHOOSE i \in DOMAIN entries :
                          /\ entries[i].Box = boxToRemove
                          /\ \A j \in 1..(i - 1) : entries[j].Box # boxToRemove
         IN  SubSeq(entries, 1, first - 1) \o SubSeq(entries, first + 1, Len(entries))
    ELSE entries

RemoveBox(entries, boxToRemove) ==
    IF boxToRemove = Nil
    THEN entries
    ELSE SelectSeq(entries, LAMBDA entry : KeepsBox(entry, boxToRemove))

\* RecalculateBin that resets the score of the entries of the other bins.
RecalculateBin_ResetsOthers(entries, bin, B, X) ==
    IF bin = Nil
    THEN entries
    ELSE [i \in DOMAIN entries |->
             IF entries[i].Bin = bin
             THEN Calculate(entries[i], B, X)
             ELSE NewScoreBoardEntry(entries[i].Bin, entries[i].Box)]

\* RecalculateBin that leaves every cached score as it is.
RecalculateBin_Skipped(entries, bin, B, X) == entries

RecalculateBin(entries, bin, B, X) ==
    IF bin = Nil
    THEN entries
    ELSE [i \in DOMAIN entries |->
             IF entries[i].Bin = bin THEN Calculate(entries[i], B, X) ELSE entries[i]]

\* ------------------------------------------------------------ packer.go
\* NewPacker that stores the slice it is given.
NewPacker_Assigns(binList) ==
    [Bins |-> binList, UnpackedBoxes |-> <<>>, Backing |-> "argument"]

\* Bins holds the elements of the packer's slice; Backing tells which array
\* they are stored in: the one NewPacker allocates ("own") or the one of the
\* slice NewPacker was given ("argument").
NewPacker(binList) == [Bins |-> binList, UnpackedBoxes |-> <<>>, Backing |-> "own"]

\* Step 1 of Pack: the boxes of the argument that are not nil and not packed.
RECURSIVE FilterBoxes(_, _)
FilterBoxes(boxList, X) ==
    IF boxList = <<>>
    THEN <<>>
    ELSE (IF Head(boxList) # Nil /\ ~X[Head(boxList)].Packed
          THEN <<Head(boxList)>>
          ELSE <<>>) \o FilterBoxes(Tail(boxList), X)

\* The limit test with > for >=.
LimitReached_OffByOne(limit, packedBoxes) ==
    LET useLimit == limit > 0
    IN  useLimit /\ Len(packedBoxes) > limit

\* The limit test that ends the packing loop.
LimitReached(limit, packedBoxes) ==
    LET useLimit == limit > 0
    IN  useLimit /\ Len(packedBoxes) >= limit

\* What the packing loop has built when it exits.
LoopResult(B, X, entries, packedBoxes, log) ==
    [bins |-> B, boxes |-> X, entries |-> entries, packed |-> packedBoxes, log |-> log]

\* The record of one bestEntry.Bin.Insert(bestEntry.Box) call of the packing
\* loop: the bin, the box, what Insert returned, and the scoreboard entries and
\* the heaps as they were when BestFit returned the entry e.
Attempt(e, r, entries, B, X) == <<e.Bin, e.Box, r.ok, entries, B, X>>

\* Step 4 of Pack: the packing loop, entered with the heaps B and X, the
\* scoreboard entries and the boxes packed so far.  log lists the Bin.Insert
\* calls the loop has made, one Attempt each.
RECURSIVE PackLoop(_, _, _, _, _, _)

\* The packing loop's limit check that never ends the loop.
CheckLimit_NeverStops(B, X, entries, packedBoxes, limit, log) ==
    PackLoop(B, X, entries, packedBoxes, limit, log)

\* The end of an iteration that packed a box: the limit check.
CheckLimit(B, X, entries, packedBoxes, limit, log) ==
    IF LimitReached(limit, packedBoxes)
    THEN LoopResult(B, X, entries, packedBoxes, log)
    ELSE PackLoop(B, X, entries, packedBoxes, limit, log)

\* The successful iteration that leaves the entries of the packed box on the
\* scoreboard.
InsertSucceeded_KeepsBox(B, X, entries, packedBoxes, limit, log, e) ==
    CheckLimit(B, X, RecalculateBin(entries, e.Bin, B, X),
               Append(packedBoxes, e.Box), limit, log)

\* The successful iteration that puts the box in front of packedBoxes.
InsertSucceeded_Prepends(B, X, entries, packedBoxes, limit, log, e) ==
    CheckLimit(B, X, RecalculateBin(RemoveBox(entries, e.Box), e.Bin, B, X),
               <<e.Box>> \o packedBoxes, limit, log)

\* The iteration after bestEntry.Bin.Insert(bestEntry.Box) returned true and
\* left the heaps B and X: the box is recorded as packed, its entries are
\* removed and the scores of the bin are recalculated.
InsertSucceeded(B, X, entries, packedBoxes, limit, log, e) ==
    CheckLimit(B, X, RecalculateBin(RemoveBox(entries, e.Box), e.Bin, B, X),
               Append(packedBoxes, e.Box), limit, log)

\* The iteration after bestEntry.Bin.Insert(bestEntry.Box) returned r.
AfterInsert(B, X, entries, packedBoxes, limit, log, e, r) ==
    IF ~r.ok
    THEN PackLoop(B, X, RemoveBox(entries, e.Box), packedBoxes, limit,
                  Append(log, Attempt(e, r, entries, B, X)))
    ELSE InsertSucceeded([B EXCEPT ![e.Bin] = r.bin], [X EXCEPT ![e.Box] = r.box],
                         entries, packedBoxes, limit,
                         Append(log, Attempt(e, r, entries, B, X)), e)

\* The iteration for the entry e that BestFit returned.
TryEntry(B, X, entries, packedBoxes, limit, log, e) ==
    IF e.Bin = Nil \/ e.Box = Nil
    THEN IF e.Box # Nil
         THEN PackLoop(B, X, RemoveBox(entries, e.Box), packedBoxes, limit, log)
         ELSE LoopResult(B, X, entries, packedBoxes, log)
    ELSE AfterInsert(B, X, entries, packedBoxes, limit, log, e,
                     Insert(B[e.Bin], X[e.Box], e.Box))

\* The head of an iteration, bestEntry being what BestFit returned.
WithBest(B, X, entries, packedBoxes, limit, log, bestEntry) ==
    IF bestEntry = Nil
    THEN LoopResult(B, X, entries, packedBoxes, log)
    ELSE TryEntry(B, X, entries, packedBoxes, limit, log, entries[bestEntry])

PackLoop(B, X, entries, packedBoxes, limit, log) ==
    WithBest(B, X, entries, packedBoxes, limit, log, BestFit(entries))

\* Step 5 of Pack: the boxes reported as unpacked.
UnpackedAfter(loop) == CurrentBoxes(loop.entries)

\* What Pack leaves and returns when its loop has ended.
PackResult(loop) ==
    [bins |-> loop.bins, boxes |-> loop.boxes, packed |-> loop.packed,
     unpacked |-> UnpackedAfter(loop), log |-> loop.log, entries |-> loop.entries]

\* Steps 2 to 5 of Pack, for the filtered list boxesToPack.
PackFiltered(p, boxesToPack, limit, B, X) ==
    IF boxesToPack = <<>>
    THEN [bins |-> B, boxes |-> X, packed |-> <<>>, unpacked |-> {}, log |-> <<>>,
          entries |-> <<>>]
    ELSE PackResult(PackLoop(B, X, NewScoreBoard(p.Bins, boxesToPack, B, X),
                             <<>>, limit, <<>>))

\* Pack that clears the Packed flag of the boxes it is given before it filters.
Pack_ClearsPacked(p, boxList, limit, B, X) ==
    LET X0 == [x \in DOMAIN X |->
                  IF \E k \in DOMAIN boxList : boxList[k] = x
                  THEN [X[x] EXCEPT !.Packed = FALSE]
                  ELSE X[x]]
    IN  PackFiltered(p, FilterBoxes(boxList, X0), limit, B, X0)

\* Packer.Pack(boxList, PackerOptions{Limit: limit}) on the packer record p,
\* run on the heaps B and X: the heaps as the call leaves them, the returned
\* list (packed) and the set of boxes stored in UnpackedBoxes (unpacked).
Pack(p, boxList, limit, B, X) ==
    PackFiltered(p, FilterBoxes(boxList, X), limit, B, X)

\* ------------------------------------------------- unnamed/part_001 (Pack)
\* The second implementation of Packer.Pack in the repository.  Steps 1 to 4
\* are those of packer.go; step 5 lists the boxes of the filtered input that
\* are not in packedBoxes, in input order.
UnpackedPart001(boxesToPack, packedBoxes) ==
    SelectSeq(boxesToPack, LAMBDA initialBox : initialBox \notin {packedBoxes[k] : k \in DOMAIN packedBoxes})

\* What this Pack leaves and returns when its loop has ended.
PackResultPart001(loop, boxesToPack) ==
    [bins |-> loop.bins, boxes |-> loop.boxes, packed |-> loop.packed,
     unpacked |-> UnpackedPart001(boxesToPack, loop.packed)]

PackFilteredPart001(p, boxesToPack, limit, B, X) ==
    IF boxesToPack = <<>>
    THEN [bins |-> B, boxes |-> X, packed |-> <<>>, unpacked |-> <<>>]
    ELSE PackResultPart001(PackLoop(B, X, NewScoreBoard(p.Bins, boxesToPack, B, X),
                                    <<>>, limit, <<>>), boxesToPack)

\* Packer.Pack of unnamed/part_001 on the packer record p: the heaps as the
\* call leaves them, the returned list and the list stored in UnpackedBoxes.
PackPart001(p, boxList, limit, B, X) ==
    PackFilteredPart001(p, FilterBoxes(boxList, X), limit, B, X)

\* ------------------------------------------------------------------ state
NoCall ==
    [op |-> "none", target |-> Nil, box |-> Nil, input |-> <<>>, limit |-> 0,
     ok |-> FALSE, rot |-> FALSE, packed |-> <<>>, panicked |-> FALSE]

Dims == 0..MaxDim

Shapes(dims) == {NewBox(w, h, c) : w \in dims, h \in dims, c \in BOOLEAN}

\* Boxes are interchangeable until a call names them, so the caller's boxes are
\* numbered in a fixed order of their shapes.
ShapeCode(b) ==
    (b.Width * (MaxDim + 1) + b.Height) * 2 + (IF b.ConstrainRotation THEN 1 ELSE 0)

\* The slice literal of bins the caller builds for packer p.
BinsFor(p) == IF p = 1 THEN [i \in BinIds |-> i] ELSE <<NBins>>

\* A slice the caller holds: its elements (caller), the cells of the backing
\* array it was created with (array; the capacity is their number), and
\* whether the slice is still stored in that array (attached).
SliceOf(elements) == [array |-> elements, caller |-> elements, attached |-> TRUE]

\* The objects the caller has constructed: NBoxes boxes of the given
\* dimensions, a bin of (MaxDim + 1) x MaxDim with one of the given strategies
\* and a bin of MaxDim x 1 with the default one, a packer holding all bins and
\* packers holding the last bin only.
Construct(dims, strategies) ==
    /\ boxes \in [BoxIds -> Shapes(dims)]
    /\ \A i \in BoxIds : i + 1 \in BoxIds => ShapeCode(boxes[i]) <= ShapeCode(boxes[i + 1])
    /\ created = [i \in BoxIds |-> <<boxes[i].Width, boxes[i].Height>>]
    /\ \E s \in strategies :
           bins = [i \in BinIds |->
                      IF i = 1 THEN NewBin(MaxDim + 1, MaxDim, s) ELSE NewBin(MaxDim, 1, NilFunc)]
    /\ slices = [p \in PackerIds |-> SliceOf(BinsFor(p))]
    /\ packers = [p \in PackerIds |-> NewPacker(BinsFor(p))]
    /\ calls = [inserts |-> 0, packs |-> 0, writes |-> 0]
    /\ last = NoCall

Init == Construct(Dims, Strategies)

\* bin.Insert(box), called by the user of the library.
DoInsert(b, x) ==
    \E r \in {Insert(bins[b], boxes[x], x)} :
        /\ bins' = [bins EXCEPT ![b] = r.bin]
        /\ boxes' = [boxes EXCEPT ![x] = r.box]
        /\ last' = [NoCall EXCEPT !.op = "Insert", !.target = b, !.box = x,
                                  !.ok = r.ok, !.rot = r.rot]
        /\ UNCHANGED <<packers, created, slices>>

\* The box lists a caller hands to Pack: up to MaxInput pointers, nil and
\* repeated pointers included.
RECURSIVE ListsUpTo(_, _)
ListsUpTo(S, n) ==
    IF n = 0
    THEN {<<>>}
    ELSE LET shorter == ListsUpTo(S, n - 1)
         IN  shorter \cup {Append(l, x) : l \in {m \in shorter : Len(m) = n - 1}, x \in S}

Inputs == ListsUpTo(BoxIds \cup {Nil}, MaxInput)

Limits == -1..MaxLimit

\* The orders in which a slice built from a Go map can list the set S.
Orderings(S) ==
    {l \in ListsUpTo(S, Cardinality(S)) :
        Len(l) = Cardinality(S) /\ {l[i] : i \in DOMAIN l} = S}

\* packers[p].Pack(input, PackerOptions{Limit: limit}), called by the user.
DoPack(p, input, limit) ==
    \E r \in {Pack(packers[p], input, limit, bins, boxes)} :
        /\ bins' = r.bins
        /\ boxes' = r.boxes
        /\ \E u \in Orderings(r.unpacked) :
               packers' = [packers EXCEPT ![p].UnpackedBoxes = u]
        /\ last' = [NoCall EXCEPT !.op = "Pack", !.target = p, !.input = input,
                                  !.limit = limit, !.packed = r.packed]
        /\ UNCHANGED <<created, slices>>

\* ------------------------------------------------- bin-level specification
\* Any sequence of direct Insert calls of the caller's boxes into one bin.
TheBin == CHOOSE b \in BinIds : \A c \in BinIds : b <= c

InsertStep == \E x \in BoxIds : DoInsert(TheBin, x) /\ UNCHANGED calls

Next == InsertStep

Spec == Init /\ [][Next]_vars

\* --------------------------------------------------- packing specification
\* The caller inserts up to MaxSetup boxes directly into any bin, then calls
\* Pack up to MaxPacks times on any packer.
PackDims == 1..MaxDim

PackStrategies == {"BestAreaFit", "BottomLeft"}

InitPack == Construct(PackDims, PackStrategies)

SetupStep ==
    /\ calls.packs = 0
    /\ calls.inserts < MaxSetup
    /\ \E b \in BinIds, x \in BoxIds : DoInsert(b, x)
    /\ calls' = [calls EXCEPT !.inserts = @ + 1]

PackStep ==
    /\ calls.packs < MaxPacks
    /\ \E p \in PackerIds, input \in Inputs, limit \in Limits : DoPack(p, input, limit)
    /\ calls' = [calls EXCEPT !.packs = @ + 1]

NextPack == SetupStep \/ PackStep

SpecPack == InitPack /\ [][NextPack]_vars

\* ----------------------------------------------------- calls specification
\* The caller makes up to MaxCalls calls of Bin.Insert, Bin.ScoreFor,
\* Bin.IsLargerThan and Packer.Pack (Pack up to MaxPacks times), in any order,
\* on any bin or packer, with any of its box pointers or nil.  A call that
\* panics ends the program.
Pointers == BoxIds \cup {Nil}

\* Reading a field through the pointer box is a nil pointer dereference, a
\* run-time panic, when box is nil.
NilDereference(box) == box = Nil

Panic(op, b) ==
    /\ last' = [NoCall EXCEPT !.op = op, !.target = b, !.panicked = TRUE]
    /\ UNCHANGED <<boxes, bins, packers, created, slices>>

\* A call that only reads the bin and the box.
Query(op, b, x) ==
    /\ last' = [NoCall EXCEPT !.op = op, !.target = b, !.box = x]
    /\ UNCHANGED <<boxes, bins, packers, created, slices>>

CanCall == ~last.panicked /\ calls.inserts + calls.packs < MaxCalls

InsertCall ==
    /\ CanCall
    /\ \E b \in BinIds, x \in Pointers :
           IF NilDereference(x) THEN Panic("Insert", b) ELSE DoInsert(b, x)
    /\ calls' = [calls EXCEPT !.inserts = @ + 1]

\* bin.ScoreFor(box), called by the user of the library.
DoScoreFor(b, x) ==
    \E r \in {ScoreForRun(bins[b], boxes[x])} :
        /\ bins' = [bins EXCEPT ![b] = r.bin]
        /\ boxes' = [boxes EXCEPT ![x] = r.box]
        /\ last' = [NoCall EXCEPT !.op = "ScoreFor", !.target = b, !.box = x]
        /\ UNCHANGED <<packers, created, slices>>

ScoreForCall ==
    /\ CanCall
    /\ \E b \in BinIds, x \in Pointers :
           IF NilDereference(x) THEN Panic("ScoreFor", b) ELSE DoScoreFor(b, x)
    /\ calls' = [calls EXCEPT !.inserts = @ + 1]

IsLargerThanCall ==
    /\ CanCall
    /\ \E b \in BinIds, x \in Pointers :
           IF NilDereference(x) THEN Panic("IsLargerThan", b) ELSE Query("IsLargerThan", b, x)
    /\ calls' = [calls EXCEPT !.inserts = @ + 1]

PackCall == CanCall /\ PackStep

NextCalls == InsertCall \/ ScoreForCall \/ IsLargerThanCall \/ PackCall

SpecCalls == InitPack /\ [][NextCalls]_vars

\* ----------------------------------------------------- slice specification
\* The caller changes the slices it built the packers from, up to MaxWrites
\* times, then calls Pack.
\* s[i] = b.
SetElement(s, i, b) ==
    [s EXCEPT !.caller[i] = b,
              !.array = IF s.attached THEN [@ EXCEPT ![i] = b] ELSE @]

\* s = append(s[:i], s[i+1:]...): the elements behind the removed one move one
\* cell down in the backing array, whose last cell keeps its value.
RemoveElement(s, i) ==
    LET shorter == SubSeq(s.caller, 1, i - 1) \o SubSeq(s.caller, i + 1, Len(s.caller))
    IN  [s EXCEPT !.caller = shorter,
                  !.array = IF s.attached
                            THEN shorter \o SubSeq(@, Len(shorter) + 1, Len(@))
                            ELSE @]

\* s = append(s, b): written into the backing array while its capacity
\* allows, into a new array otherwise.
AppendElement(s, b) ==
    IF s.attached /\ Len(s.caller) < Len(s.array)
    THEN [s EXCEPT !.caller = Append(@, b), !.array = [@ EXCEPT ![Len(s.caller) + 1] = b]]
    ELSE [s EXCEPT !.caller = Append(@, b), !.attached = FALSE]

\* The caller's slice for packer p becomes s; a packer whose Bins is stored in
\* the same array sees the cells of that array.
WriteSlice(p, s) ==
    /\ slices' = [slices EXCEPT ![p] = s]
    /\ packers' = IF packers[p].Backing = "argument"
                  THEN [packers EXCEPT ![p].Bins = s.array]
                  ELSE packers
    /\ last' = [NoCall EXCEPT !.op = "Write", !.target = p]
    /\ UNCHANGED <<boxes, bins, created>>

WriteStep ==
    /\ calls.packs = 0
    /\ calls.writes < MaxWrites
    /\ \E p \in PackerIds :
           \/ \E i \in DOMAIN slices[p].caller, b \in BinIds \cup {Nil} :
                  WriteSlice(p, SetElement(slices[p], i, b))
           \/ \E i \in DOMAIN slices[p].caller : WriteSlice(p, RemoveElement(slices[p], i))
           \/ \E b \in BinIds : WriteSlice(p, AppendElement(slices[p], b))
    /\ calls' = [calls EXCEPT !.writes = @ + 1]

NextSlice == WriteStep \/ PackStep

SpecSlice == InitPack /\ [][NextSlice]_vars

\* ---------------------------------------------------- README specification
\* The objects of the usage example: one bin of 100 x 50 with the default
\* strategy, six boxes, one packer.  The caller calls Pack once, with the six
\* boxes in any order and any limit.
ReadmeBoxes ==
    <<NewBox(15, 10, FALSE), NewBox(50, 45, FALSE), NewBox(40, 40, FALSE),
      NewBox(200, 200, FALSE), NewBox(50, 100, TRUE), NewBox(50, 100, FALSE)>>

\* The argument of Pack in the example.
ReadmeInput == [i \in DOMAIN ReadmeBoxes |-> i]

ReadmeInputs ==
    {l \in [DOMAIN ReadmeBoxes -> DOMAIN ReadmeBoxes] :
        \A i, j \in DOMAIN l : i # j => l[i] # l[j]}

InitReadme ==
    /\ boxes = ReadmeBoxes
    /\ created = [i \in DOMAIN ReadmeBoxes |-> <<boxes[i].Width, boxes[i].Height>>]
    /\ bins = <<NewBin(100, 50, NilFunc)>>
    /\ slices = <<SliceOf(<<1>>)>>
    /\ packers = <<NewPacker(<<1>>)>>
    /\ calls = [inserts |-> 0, packs |-> 0, writes |-> 0]
    /\ last = NoCall

ReadmePack ==
    /\ calls.packs < MaxPacks
    /\ \E input \in ReadmeInputs, limit \in Limits : DoPack(1, input, limit)
    /\ calls' = [calls EXCEPT !.packs = @ + 1]

NextReadme == ReadmePack

SpecReadme == InitReadme /\ [][NextReadme]_vars

\* ------------------------------------------------------------ properties
\* The unit cells of the plane a rectangle [X, X+Width) x [Y, Y+Height) covers.
Cells(r) ==
    {<<i, j>> : i \in r.X..(r.X + r.Width - 1), j \in r.Y..(r.Y + r.Height - 1)}

BinCells(b) == Cells(FreeSpaceBox(0, 0, bins[b].Width, bins[b].Height))

Placed(b) == {bins[b].Boxes[k] : k \in DOMAIN bins[b].Boxes}

FreeCells(b) == UNION {Cells(bins[b].FreeSpaces[k]) : k \in DOMAIN bins[b].FreeSpaces}

PlacedCells(b) == UNION {Cells(boxes[x]) : x \in Placed(b)}

Within(rectA, rectB) ==
    /\ rectB.X <= rectA.X
    /\ rectB.Y <= rectA.Y
    /\ rectA.X + rectA.Width <= rectB.X + rectB.Width
    /\ rectA.Y + rectA.Height <= rectB.Y + rectB.Height

\* C1: no two boxes in a bin's placed list cover a common point.
C1_NoOverlap ==
    \A b \in BinIds : \A i, j \in DOMAIN bins[b].Boxes :
        i < j => Cells(boxes[bins[b].Boxes[i]]) \cap Cells(boxes[bins[b].Boxes[j]]) = {}

\* C2: no free rectangle of a bin covers a point that a placed box covers.
C2_FreeSpaceIsFree ==
    \A b \in BinIds : FreeCells(b) \cap PlacedCells(b) = {}

\* C3: when every placed box has positive width and height, each point of the
\* bin is covered by a placed box or by a free rectangle.
C3_FreeSpaceCoverage ==
    \A b \in BinIds :
        (\A x \in Placed(b) : boxes[x].Width > 0 /\ boxes[x].Height > 0)
            => BinCells(b) \subseteq (FreeCells(b) \cup PlacedCells(b))

C3_Witness ==
    /\ last.op = "Insert" /\ last.ok
    /\ Len(bins[TheBin].Boxes) >= 2
    /\ \A x \in Placed(TheBin) : boxes[x].Width > 0 /\ boxes[x].Height > 0
    /\ BinCells(TheBin) \ PlacedCells(TheBin) # {}

\* C4: no free rectangle of a bin lies within another free rectangle of it.
C4_MaximalFreeRectangles ==
    \A b \in BinIds : \A i, j \in DOMAIN bins[b].FreeSpaces :
        i # j => ~Within(bins[b].FreeSpaces[i], bins[b].FreeSpaces[j])

C4_Witness ==
    /\ last.op = "Insert" /\ last.ok
    /\ Len(bins[TheBin].Boxes) >= 2
    /\ Len(bins[TheBin].FreeSpaces) >= 2

\* C5: the summed area of a bin's placed boxes is at least 0 and at most the
\* area of the bin.
C5_EfficiencyInRange ==
    \A b \in BinIds :
        /\ 0 <= boxesArea(bins[b].Boxes, boxes)
        /\ boxesArea(bins[b].Boxes, boxes) <= BinArea(bins[b])

\* C6: a rotation-constrained box keeps the width and height it was created
\* with; a successful Insert of an unconstrained box leaves it with width and
\* height swapped when the winning candidate needed rotation, and as created
\* when it did not.
C6_RotationGating ==
    /\ \A x \in BoxIds :
           boxes[x].ConstrainRotation =>
               <<boxes[x].Width, boxes[x].Height>> = created[x]
    /\ (last.op = "Insert" /\ last.ok /\ ~boxes[last.box].ConstrainRotation) =>
           IF last.rot
           THEN <<boxes[last.box].Height, boxes[last.box].Width>> = created[last.box]
           ELSE <<boxes[last.box].Width, boxes[last.box].Height>> = created[last.box]

C6_Witness ==
    /\ last.op = "Insert" /\ last.ok /\ last.rot
    /\ boxes[last.box].Width # boxes[last.box].Height
    /\ \E x \in Placed(TheBin) :
           boxes[x].ConstrainRotation /\ boxes[x].Width # boxes[x].Height

\* C10: an Insert that returns false leaves every bin and every box as it was.
C10_FailedInsertIsNoOp ==
    [][(last'.op = "Insert" /\ ~last'.ok) => (bins' = bins /\ boxes' = boxes)]_vars

C10_Witness ==
    /\ last.op = "Insert" /\ ~last.ok
    /\ ~boxes[last.box].Packed
    /\ Len(bins[last.target].Boxes) >= 1

Range(l) == {l[k] : k \in DOMAIN l}

\* The boxes of a Pack argument that are not nil and not packed, in the state
\* the call starts from.
FilteredInput(input) == {x \in Range(input) \ {Nil} : ~boxes[x].Packed}

\* C7: a Pack call leaves in UnpackedBoxes exactly the boxes of its filtered
\* input that it did not return as packed.
C7_UnpackedIsFilteredMinusPacked ==
    [][last'.op = "Pack" =>
          /\ Range(last'.packed) \subseteq FilteredInput(last'.input)
          /\ Range(packers'[last'.target].UnpackedBoxes)
                 = FilteredInput(last'.input) \ Range(last'.packed)]_vars

\* C8: a Pack call with Limit k > 0 returns min(k, n) boxes, n being the number
\* the same call returns with Limit 0; a call with a negative Limit returns
\* what the call with Limit 0 returns and leaves the same bins and boxes.
C8_CapRespected ==
    [][last'.op = "Pack" =>
          LET unlimited == Pack(packers[last'.target], last'.input, 0, bins, boxes)
          IN  IF last'.limit > 0
              THEN Len(last'.packed) = min(last'.limit, Len(unlimited.packed))
              ELSE /\ last'.packed = unlimited.packed
                   /\ bins' = unlimited.bins
                   /\ boxes' = unlimited.boxes]_vars

C8_Witness ==
    /\ last.op = "Pack" /\ last.limit > 0
    /\ Len(last.packed) = last.limit
    /\ \E x \in Range(last.input) \ {Nil} :
           /\ ~boxes[x].Packed
           /\ Pack(packers[last.target], <<x>>, 0, bins, boxes).packed = <<x>>

\* C9: a Pack call changes no box that was packed when it was called and does
\* not return it; when every box it is given was packed already, it changes
\* no bin and no box and returns the empty list.
C9_NoRepacking ==
    [][last'.op = "Pack" =>
          /\ \A x \in Range(last'.input) \ {Nil} :
                 boxes[x].Packed => boxes'[x] = boxes[x] /\ x \notin Range(last'.packed)
          /\ (\A x \in Range(last'.input) \ {Nil} : boxes[x].Packed) =>
                 bins' = bins /\ boxes' = boxes /\ last'.packed = <<>>]_vars

C9_Witness ==
    /\ last.op = "Pack" /\ last.packed = <<>>
    /\ last.input # <<>>
    /\ \A x \in Range(last.input) : x # Nil /\ boxes[x].Packed
    /\ \E k \in DOMAIN packers[last.target].Bins :
           Range(last.input) \subseteq Placed(packers[last.target].Bins[k])

\* C11: an Insert that returns true leaves the box packed, at the top-left
\* corner of a rectangle that was free before the call and is at least as wide
\* and as high as the box is after the call, and leaves the box as the last
\* element of the placed list, behind the earlier elements, which are unchanged.
C11_SuccessfulInsert ==
    [][(last'.op = "Insert" /\ last'.ok) =>
          LET b == last'.target
              x == last'.box
          IN  /\ boxes'[x].Packed
              /\ \E k \in DOMAIN bins[b].FreeSpaces :
                     /\ bins[b].FreeSpaces[k].X = boxes'[x].X
                     /\ bins[b].FreeSpaces[k].Y = boxes'[x].Y
                     /\ bins[b].FreeSpaces[k].Width >= boxes'[x].Width
                     /\ bins[b].FreeSpaces[k].Height >= boxes'[x].Height
              /\ bins'[b].Boxes = Append(bins[b].Boxes, x)
              /\ \A y \in Placed(b) : boxes'[y] = boxes[y]]_vars

C11_Witness ==
    /\ last.op = "Insert" /\ last.ok /\ last.rot
    /\ Len(bins[last.target].Boxes) >= 2
    /\ boxes[last.box].X + boxes[last.box].Y > 0

\* C12: after a Pack call with Limit <= 0, Insert returns false for every box
\* of the filtered input that was not packed and every bin of the packer.
C12_StopsWhenNothingFits ==
    [][(last'.op = "Pack" /\ last'.limit <= 0) =>
          \A x \in FilteredInput(last'.input) \ Range(last'.packed) :
              \A k \in DOMAIN packers[last'.target].Bins :
                  ~Insert(bins'[packers[last'.target].Bins[k]], boxes'[x], x).ok]_vars

C12_Witness ==
    /\ last.op = "Pack" /\ last.limit <= 0
    /\ last.packed # <<>>
    /\ Len(packers[last.target].Bins) >= 2
    /\ \E x \in Range(last.input) \ {Nil} :
           /\ ~boxes[x].Packed
           /\ \E k \in DOMAIN packers[last.target].Bins :
                  IsLargerThan(bins[packers[last.target].Bins[k]], boxes[x])

\* C13: every entry that BestFit returns during a Pack call is one whose box
\* has a fitting position in its bin, so that the Insert that follows succeeds.
C13_SentinelNeverSelected ==
    [][last'.op = "Pack" =>
          LET call == Pack(packers[last'.target], last'.input, last'.limit, bins, boxes)
          IN  \A k \in DOMAIN call.log : call.log[k][3]]_vars

\* The boxes a Pack step appended to the placed list of bin b.
AddedTo(b) == SubSeq(bins'[b].Boxes, Len(bins[b].Boxes) + 1, Len(bins'[b].Boxes))

\* C16: the list a Pack call returns holds no box twice, holds exactly the
\* boxes the call appended to the bins of its packer, lists the boxes appended
\* to one bin in the order of that bin's placed list, and lists all of them in
\* the order of the successful Insert calls; the call appends to no other bin.
C16_CommitOrder ==
    [][last'.op = "Pack" =>
          LET binList == packers[last'.target].Bins
              call == Pack(packers[last'.target], last'.input, last'.limit, bins, boxes)
              commits == SelectSeq(call.log, LAMBDA c : c[3])
          IN  /\ \A i, j \in DOMAIN last'.packed : i # j => last'.packed[i] # last'.packed[j]
              /\ \A b \in BinIds :
                     /\ SubSeq(bins'[b].Boxes, 1, Len(bins[b].Boxes)) = bins[b].Boxes
                     /\ b \notin Range(binList) => AddedTo(b) = <<>>
                     /\ AddedTo(b) = SelectSeq(last'.packed, LAMBDA x : x \in Range(AddedTo(b)))
              /\ Range(last'.packed) = UNION {Range(AddedTo(b)) : b \in Range(binList)}
              /\ last'.packed = [k \in DOMAIN commits |-> commits[k][2]]]_vars

C16_Witness ==
    /\ last.op = "Pack" /\ Len(last.packed) = 2
    /\ last.input # last.packed
    /\ \E b \in BinIds : Len(bins[b].Boxes) >= 2

\* C17: for every bin and every box that is not packed, ScoreFor returns the
\* no-fit value exactly when Insert would return false; when Insert would
\* return true, ScoreFor returns the score that the bin's strategy gives to
\* the box as Insert leaves it, in a free rectangle at the position Insert
\* gives it.
C17_ScoreForPredictsInsert ==
    \A b \in BinIds : \A x \in BoxIds :
        ~boxes[x].Packed =>
            LET r == Insert(bins[b], boxes[x], x)
                score == ScoreFor(bins[b], boxes[x])
            IN  /\ (score = MaxInt64) <=> ~r.ok
                /\ r.ok =>
                       \E k \in DOMAIN bins[b].FreeSpaces :
                           /\ bins[b].FreeSpaces[k].X = r.box.X
                           /\ bins[b].FreeSpaces[k].Y = r.box.Y
                           /\ bins[b].FreeSpaces[k].Width >= r.box.Width
                           /\ bins[b].FreeSpaces[k].Height >= r.box.Height
                           /\ score = PlacementStrategyFunc(bins[b].Placement,
                                          bins[b].FreeSpaces[k], r.box.Width, r.box.Height)

C17_Witness ==
    /\ Len(bins[TheBin].Boxes) >= 1
    /\ \E x, y \in BoxIds :
           /\ ~boxes[x].Packed /\ ~boxes[y].Packed
           /\ ScoreFor(bins[TheBin], boxes[x]) = MaxInt64
           /\ ScoreFor(bins[TheBin], boxes[y]) < MaxInt64
           /\ Insert(bins[TheBin], boxes[y], y).rot

\* C18: when Insert would return true for a box that is not packed,
\* IsLargerThan is true for it; on a bin that holds no box, IsLargerThan is
\* true exactly when Insert would return true.
C18_IsLargerThanNecessary ==
    \A b \in BinIds : \A x \in BoxIds :
        ~boxes[x].Packed =>
            /\ Insert(bins[b], boxes[x], x).ok => IsLargerThan(bins[b], boxes[x])
            /\ bins[b] = NewBin(bins[b].Width, bins[b].Height, bins[b].Placement) =>
                   (IsLargerThan(bins[b], boxes[x]) <=> Insert(bins[b], boxes[x], x).ok)

C18_Witness ==
    /\ Len(bins[TheBin].Boxes) >= 1
    /\ \E x \in BoxIds :
           /\ ~boxes[x].Packed
           /\ IsLargerThan(bins[TheBin], boxes[x])
           /\ ~Insert(bins[TheBin], boxes[x], x).ok
    /\ \E b \in BinIds, y \in BoxIds :
           /\ bins[b].Boxes = <<>> /\ ~boxes[y].Packed
           /\ ~IsLargerThan(bins[b], boxes[y])

\* C14: no call panics.
C14_NoNilCrash == ~last.panicked

\* C15: no call changes a box that was packed when the call was made.
C15_WriteOnce ==
    [][\A x \in BoxIds : boxes[x].Packed => boxes'[x] = boxes[x]]_vars

C15_Witness ==
    /\ calls.inserts + calls.packs = 2
    /\ last.op \in {"Insert", "Pack", "ScoreFor"}
    /\ \/ last.box # Nil /\ boxes[last.box].Packed /\ ~last.ok
       \/ /\ last.op = "Pack"
          /\ \E k \in DOMAIN last.input :
                 /\ last.input[k] # Nil
                 /\ boxes[last.input[k]].Packed
                 /\ last.input[k] \notin Range(last.packed)

\* C19: whatever the caller has done to the slice it gave to NewPacker, the
\* packer holds the bins it was built with, a Pack call does what it does with
\* those bins, and every box it returns is in the placed list of one of them.
C19_NewPackerCopies ==
    [][last'.op = "Pack" =>
          \E p \in {last'.target} :
              \E call \in {Pack(NewPacker(BinsFor(p)), last'.input, last'.limit, bins, boxes)} :
                  /\ packers[p].Bins = BinsFor(p)
                  /\ bins' = call.bins
                  /\ boxes' = call.boxes
                  /\ last'.packed = call.packed
                  /\ \A x \in Range(last'.packed) :
                         \E b \in Range(BinsFor(p)) : x \in Range(bins'[b].Boxes)]_vars

C19_Witness ==
    /\ last.op = "Pack" /\ last.packed # <<>>
    /\ slices[last.target].attached
    /\ slices[last.target].array # BinsFor(last.target)

C21_GloballyBestCommit ==
    [][last'.op = "Pack" =>
          \E call \in {Pack(packers[last'.target], last'.input, last'.limit, bins, boxes)} :
              \A k \in DOMAIN call.log :
                  call.log[k][3] =>
                      \E B \in {call.log[k][5]} : \E X \in {call.log[k][6]} :
                          \A b \in Range(packers[last'.target].Bins) :
                              \A x \in CurrentBoxes(call.log[k][4]) :
                                  Insert(B[b], X[x], x).ok =>
                                      ScoreFor(B[call.log[k][1]], X[call.log[k][2]])
                                          <= ScoreFor(B[b], X[x])]_vars

C21_Witness ==
    /\ last.op = "Pack" /\ Len(last.packed) = 2
    /\ last.input = <<last.packed[2], last.packed[1]>>
    /\ Len(packers[last.target].Bins) >= 2
    /\ \E b, c \in BinIds : b # c /\ last.packed[1] \in Placed(b) /\ last.packed[2] \in Placed(c)

\* The cached score of every entry is what ScoreFor returns for the entry's
\* box in the entry's bin, on the heaps B and X.
Coherent(entries, B, X) ==
    \A i \in DOMAIN entries :
        entries[i].Score = ScoreFor(B[entries[i].Bin], X[entries[i].Box])

\* C22: whenever a Pack call asks BestFit for an entry, and when its loop has
\* ended, the cached score of every scoreboard entry is what ScoreFor returns
\* for the entry's box in the entry's bin as they are at that moment.
C22_ScoreCacheCoherent ==
    [][last'.op = "Pack" =>
          \E call \in {Pack(packers[last'.target], last'.input, last'.limit, bins, boxes)} :
              /\ \A k \in DOMAIN call.log :
                     Coherent(call.log[k][4], call.log[k][5], call.log[k][6])
              /\ Coherent(call.entries, call.bins, call.boxes)]_vars

C22_Witness ==
    /\ last.op = "Pack" /\ Len(last.packed) = 1
    /\ Len(packers[last.target].Bins) >= 2
    /\ packers[last.target].UnpackedBoxes # <<>>
    /\ \E x \in Range(packers[last.target].UnpackedBoxes) :
           \E b \in BinIds :
               /\ last.packed[1] \in Placed(b)
               /\ ScoreFor(bins[b], boxes[x]) # ScoreFor(NewBin(bins[b].Width, bins[b].Height, bins[b].Placement), boxes[x])

\* C23: every Insert that a Pack call makes for the entry BestFit returned is
\* made on a bin and a box for which Insert returns true, so that the call
\* returns as many boxes as it made Insert calls.
C23_CommitNeverFails ==
    [][last'.op = "Pack" =>
          \E call \in {Pack(packers[last'.target], last'.input, last'.limit, bins, boxes)} :
              /\ \A k \in DOMAIN call.log :
                     Insert(call.log[k][5][call.log[k][1]],
                            call.log[k][6][call.log[k][2]], call.log[k][2]).ok
              /\ Len(call.log) = Len(last'.packed)]_vars

\* The place of the first occurrence of v in the list l.
First(l, v) == CHOOSE k \in DOMAIN l : l[k] = v /\ \A j \in 1..(k - 1) : l[j] # v

\* The (bin, box) pairs of the scoreboard entries, in the order of the entries.
Pairs(entries) == [i \in DOMAIN entries |-> <<entries[i].Bin, entries[i].Box>>]

\* C24: whenever BestFit returns an entry during a Pack call, the entries are
\* those NewScoreBoard built, less those of the boxes removed since, in their
\* original order; and no entry that fits with the lowest score among the
\* entries that fit is for an earlier bin of the packer's list than the
\* returned one, or for the same bin and a box that comes earlier in the
\* filtered input.
C24_StableTieBreak ==
    [][last'.op = "Pack" =>
          \E call \in {Pack(packers[last'.target], last'.input, last'.limit, bins, boxes)} :
          \E binList \in {packers[last'.target].Bins} :
          \E boxList \in {FilterBoxes(last'.input, boxes)} :
              \A k \in DOMAIN call.log :
                  \E entries \in {call.log[k][4]} :
                      /\ Pairs(entries)
                             = SelectSeq(Pairs(NewScoreBoard(binList, boxList, bins, boxes)),
                                         LAMBDA pair : pair[2] \in CurrentBoxes(entries))
                      /\ \A i \in DOMAIN entries :
                             (/\ Fit(entries[i])
                              /\ \A j \in DOMAIN entries :
                                     Fit(entries[j]) => entries[i].Score <= entries[j].Score) =>
                                 /\ First(binList, call.log[k][1]) <= First(binList, entries[i].Bin)
                                 /\ entries[i].Bin = call.log[k][1] =>
                                        First(boxList, call.log[k][2])
                                            <= First(boxList, entries[i].Box)]_vars

C24_Witness ==
    /\ last.op = "Pack" /\ Len(last.input) = 2 /\ Len(last.packed) = 2
    /\ Len(packers[last.target].Bins) >= 2
    /\ last.input[1] # Nil /\ last.input[2] # Nil
    /\ last.input[1] > last.input[2]
    /\ created[last.input[1]] = created[last.input[2]]
    /\ boxes[last.input[1]].ConstrainRotation = boxes[last.input[2]].ConstrainRotation
    /\ last.packed = last.input

\* The candidates of the placement search: the pairs of a free rectangle (its
\* index) and an orientation (TRUE for rotated) that the search tries and in
\* which the box fits.
Candidates(box, freeSpaces) ==
    {c \in (DOMAIN freeSpaces) \X BOOLEAN :
        IF c[2]
        THEN /\ ~box.ConstrainRotation
             /\ box.Width # box.Height
             /\ freeSpaces[c[1]].Width >= box.Height
             /\ freeSpaces[c[1]].Height >= box.Width
        ELSE /\ freeSpaces[c[1]].Width >= box.Width
             /\ freeSpaces[c[1]].Height >= box.Height}

\* The score the strategy gives to the candidate c.
CandidateScore(box, freeSpaces, placement, c) ==
    IF c[2]
    THEN PlacementStrategyFunc(placement, freeSpaces[c[1]], box.Height, box.Width)
    ELSE PlacementStrategyFunc(placement, freeSpaces[c[1]], box.Width, box.Height)

\* The candidates of the lowest score.
BestCandidates(box, freeSpaces, placement) ==
    {c \in Candidates(box, freeSpaces) :
        \A d \in Candidates(box, freeSpaces) :
            CandidateScore(box, freeSpaces, placement, c)
                <= CandidateScore(box, freeSpaces, placement, d)}

\* C25: for every bin and every box for which the placement search has a
\* candidate, FindBestPlacement returns a candidate of the lowest score with
\* that score and the corner of its free rectangle; no candidate of that score
\* is in an earlier free rectangle, and the returned one is unrotated when the
\* unrotated candidate in its free rectangle has that score as well.
C25_PlacementTieBreak ==
    \A b \in BinIds : \A x \in BoxIds :
        \E fs \in {bins[b].FreeSpaces} :
        \E p \in {FindBestPlacement(boxes[x], fs, bins[b].Placement)} :
        \E best \in {BestCandidates(boxes[x], fs, bins[b].Placement)} :
            Candidates(boxes[x], fs) # {} =>
                /\ p.Fits
                /\ <<p.ChosenSpace, p.NeedsRotation>> \in best
                /\ p.Score = CandidateScore(boxes[x], fs, bins[b].Placement,
                                            <<p.ChosenSpace, p.NeedsRotation>>)
                /\ p.X = fs[p.ChosenSpace].X /\ p.Y = fs[p.ChosenSpace].Y
                /\ \A c \in best : p.ChosenSpace <= c[1]
                /\ <<p.ChosenSpace, FALSE>> \in best => ~p.NeedsRotation

C25_Witness ==
    /\ Len(bins[TheBin].Boxes) >= 1
    /\ \E x, y \in BoxIds :
       \E fs \in {bins[TheBin].FreeSpaces} :
       \E bestX \in {BestCandidates(boxes[x], fs, bins[TheBin].Placement)} :
       \E bestY \in {BestCandidates(boxes[y], fs, bins[TheBin].Placement)} :
           /\ \E c, d \in bestX : c[1] # d[1]
           /\ \E c \in bestY : \A d \in bestY : c[1] <= d[1] /\ <<c[1], FALSE>> \in bestY /\ <<c[1], TRUE>> \in bestY

\* The free rectangle has room for a rectangle of the given width and height.
Admits(freeSpace, width, height) ==
    freeSpace.Width >= width /\ freeSpace.Height >= height

\* C26: for every bin and every box, FindBestPlacement returns Fits = TRUE
\* exactly when a free rectangle of the bin has room for the box as it is or,
\* the box not being rotation-constrained, with width and height swapped; when
\* it returns Fits = FALSE, the score is the no-fit value and no free rectangle
\* is chosen.
C26_FitDetectionExact ==
    \A b \in BinIds : \A x \in BoxIds :
        \E fs \in {bins[b].FreeSpaces} :
        \E p \in {FindBestPlacement(boxes[x], fs, bins[b].Placement)} :
            /\ p.Fits <=>
                   \E k \in DOMAIN fs :
                       \/ Admits(fs[k], boxes[x].Width, boxes[x].Height)
                       \/ /\ ~boxes[x].ConstrainRotation
                          /\ Admits(fs[k], boxes[x].Height, boxes[x].Width)
            /\ ~p.Fits => p.Score = MaxInt64 /\ p.ChosenSpace = Nil

C26_Witness ==
    /\ Len(bins[TheBin].FreeSpaces) >= 2
    /\ \E x, y \in BoxIds :
       \E fs \in {bins[TheBin].FreeSpaces} :
           /\ ~boxes[x].Packed /\ ~boxes[y].Packed
           /\ ~Admits(fs[1], boxes[x].Width, boxes[x].Height)
           /\ FindBestPlacement(boxes[x], fs, bins[TheBin].Placement).Fits
           /\ FindBestPlacement(boxes[x], fs, bins[TheBin].Placement).ChosenSpace > 1
           /\ IsLargerThan(bins[TheBin], boxes[y])
           /\ ~FindBestPlacement(boxes[y], fs, bins[TheBin].Placement).Fits

\* The scoreboard entries the k-th Insert call of the packing loop leaves
\* behind: those the next BestFit call sees, or those the loop ends with.
EntriesAfter(call, k) ==
    IF k < Len(call.log) THEN call.log[k + 1][4] ELSE call.entries

\* C27: a Pack call ends after at most as many Insert calls as its filtered
\* input holds different boxes: the boxes on the scoreboard are boxes of the
\* filtered input, and each pass of the loop that does not leave it takes the
\* box it tried, and no other, off the scoreboard.
C27_PackTerminates ==
    [][last'.op = "Pack" =>
          \E call \in {Pack(packers[last'.target], last'.input, last'.limit, bins, boxes)} :
              /\ Len(call.log) <= Cardinality(FilteredInput(last'.input))
              /\ \A k \in DOMAIN call.log :
                     /\ CurrentBoxes(call.log[k][4]) \subseteq FilteredInput(last'.input)
                     /\ call.log[k][2] \in CurrentBoxes(call.log[k][4])
                     /\ CurrentBoxes(EntriesAfter(call, k))
                            = CurrentBoxes(call.log[k][4]) \ {call.log[k][2]}]_vars

C27_Witness ==
    /\ last.op = "Pack" /\ last.limit <= 0
    /\ Len(last.input) = 2 /\ Len(last.packed) = 1
    /\ Len(packers[last.target].Bins) >= 2
    /\ \E x \in Range(last.input) \ {Nil} :
           /\ ~boxes[x].Packed
           /\ packers[last.target].UnpackedBoxes = <<>>

\* C28: a Pack call makes at most one Insert call for any box, whether the
\* call succeeds or not and however often the box is in the input.
C28_SingleAttempt ==
    [][last'.op = "Pack" =>
          \E call \in {Pack(packers[last'.target], last'.input, last'.limit, bins, boxes)} :
              \A j, k \in DOMAIN call.log : j # k => call.log[j][2] # call.log[k][2]]_vars

C28_Witness ==
    /\ last.op = "Pack" /\ last.limit <= 0
    /\ Len(last.input) = 2 /\ last.input[1] = last.input[2]
    /\ last.packed = <<last.input[1]>>
    /\ Len(packers[last.target].Bins) >= 2

\* The test at the head of generateSplits: the rectangle of the box and the
\* free rectangle have a point in common.
Intersects(freeNode, usedNode) ==
    ~(\/ usedNode.X >= freeNode.X + freeNode.Width
      \/ usedNode.X + usedNode.Width <= freeNode.X
      \/ usedNode.Y >= freeNode.Y + freeNode.Height
      \/ usedNode.Y + usedNode.Height <= freeNode.Y)

\* C29: in every Insert that returns true, the box as Insert has positioned
\* it intersects the free rectangle the placement search chose, so that
\* generateSplits does not take its no-split branch.
C29_NoSplitBranchUnreachable ==
    [][(last'.op = "Insert" /\ last'.ok) =>
          \E b \in {last'.target} : \E x \in {last'.box} :
          \E p \in {FindBestPlacement(boxes[x], bins[b].FreeSpaces, bins[b].Placement)} :
              Intersects(bins[b].FreeSpaces[p.ChosenSpace], boxes'[x])]_vars

\* C30: a ScoreFor call changes no bin and no box, so that every Insert that
\* could follow it does what it would have done without the call.
C30_ScoreForIsPure ==
    [][last'.op = "ScoreFor" =>
          /\ bins' = bins
          /\ boxes' = boxes
          /\ \A b \in BinIds : \A x \in BoxIds :
                 Insert(bins'[b], boxes'[x], x) = Insert(bins[b], boxes[x], x)]_vars

C30_Witness ==
    /\ last.op = "ScoreFor" /\ ~last.panicked /\ last.box # Nil
    /\ ~boxes[last.box].Packed
    /\ Len(bins[last.target].Boxes) >= 1
    /\ FindBestPlacement(boxes[last.box], bins[last.target].FreeSpaces,
                         bins[last.target].Placement).NeedsRotation

\* The heaps a successful Insert call of the packing loop leaves, attempt
\* being its record in the log.
HeapsAfterCommit(attempt) ==
    LET r == Insert(attempt[5][attempt[1]], attempt[6][attempt[2]], attempt[2])
    IN  [bins |-> [attempt[5] EXCEPT ![attempt[1]] = r.bin],
         boxes |-> [attempt[6] EXCEPT ![attempt[2]] = r.box]]

\* C31: on the scoreboard and the heaps as each successful Insert of a Pack
\* call and the RemoveBox behind it leave them, RecalculateBin, for the bin
\* that received the box and for any other bin or nil, returns the same
\* entries for the same bins and boxes in the same order and leaves the score
\* of every entry of another bin as it was; the loop goes on with the
\* entries RecalculateBin returns for the bin that received the box, and
\* with the bins and boxes as Insert left them.
C31_RecalculateBinFrame ==
    [][last'.op = "Pack" =>
          \E call \in {Pack(packers[last'.target], last'.input, last'.limit, bins, boxes)} :
              \A k \in DOMAIN call.log :
                  call.log[k][3] =>
                      \E h \in {HeapsAfterCommit(call.log[k])} :
                      \E before \in {RemoveBox(call.log[k][4], call.log[k][2])} :
                          /\ \A b \in BinIds \cup {Nil} :
                             \E after \in {RecalculateBin(before, b, h.bins, h.boxes)} :
                                 /\ Pairs(after) = Pairs(before)
                                 /\ \A i \in DOMAIN before :
                                        before[i].Bin # b => after[i] = before[i]
                          /\ EntriesAfter(call, k)
                                 = RecalculateBin(before, call.log[k][1], h.bins, h.boxes)
                          /\ IF k < Len(call.log)
                             THEN call.log[k + 1][5] = h.bins /\ call.log[k + 1][6] = h.boxes
                             ELSE call.bins = h.bins /\ call.boxes = h.boxes]_vars

C31_Witness ==
    /\ last.op = "Pack" /\ last.limit = 1 /\ Len(last.packed) = 1
    /\ Len(packers[last.target].Bins) >= 2
    /\ \E x \in Range(packers[last.target].UnpackedBoxes) :
       \E b, c \in Range(packers[last.target].Bins) :
           /\ last.packed[1] \in Placed(b) /\ c # b
           /\ ScoreFor(bins[c], boxes[x]) < MaxInt64
           /\ ScoreFor(bins[b], boxes[x]) = MaxInt64

\* C32: a successful Insert of a rotation-constrained box into a bin that
\* uses BottomLeft puts the box at the corner of a free rectangle that had
\* room for it, no free rectangle with room for it has a smaller Y, and none
\* with the same Y has a smaller X.
C32_BottomLeftOrder ==
    [][(/\ last'.op = "Insert" /\ last'.ok
        /\ bins[last'.target].Placement = "BottomLeft"
        /\ boxes[last'.box].ConstrainRotation) =>
          \E fs \in {bins[last'.target].FreeSpaces} : \E box \in {boxes'[last'.box]} :
              /\ \E k \in DOMAIN fs :
                     /\ Admits(fs[k], box.Width, box.Height)
                     /\ fs[k].X = box.X /\ fs[k].Y = box.Y
              /\ \A k \in DOMAIN fs :
                     Admits(fs[k], box.Width, box.Height) =>
                         /\ box.Y <= fs[k].Y
                         /\ fs[k].Y = box.Y => box.X <= fs[k].X]_vars

\* The area of the free rectangle that a box of the given size leaves over.
LeftOver(freeSpace, box) == freeSpace.Width * freeSpace.Height - BoxArea(box)

\* C33: a successful Insert of a rotation-constrained box into a bin that
\* uses BestAreaFit puts the box at the corner of a free rectangle that had
\* room for it, and no free rectangle with room for it leaves over a smaller
\* area than every free rectangle with room for it at that corner.
C33_LeastWastedArea ==
    [][(/\ last'.op = "Insert" /\ last'.ok
        /\ bins[last'.target].Placement = "BestAreaFit"
        /\ boxes[last'.box].ConstrainRotation) =>
          \E fs \in {bins[last'.target].FreeSpaces} : \E box \in {boxes'[last'.box]} :
              \E k \in DOMAIN fs :
                  /\ Admits(fs[k], box.Width, box.Height)
                  /\ fs[k].X = box.X /\ fs[k].Y = box.Y
                  /\ \A j \in DOMAIN fs :
                         Admits(fs[j], box.Width, box.Height) =>
                             LeftOver(fs[k], box) <= LeftOver(fs[j], box)]_vars

\* C34: every Pack call returns the list, leaves the bins and the boxes, and
\* stores in UnpackedBoxes the set of boxes that the Pack of unnamed/part_001
\* returns, leaves and stores for the same packer, argument and limit.
C34_PackImplementationsAgree ==
    [][last'.op = "Pack" =>
          \E alt \in {PackPart001(packers[last'.target], last'.input, last'.limit,
                                  bins, boxes)} :
              /\ last'.packed = alt.packed
              /\ bins' = alt.bins
              /\ boxes' = alt.boxes
              /\ Range(packers'[last'.target].UnpackedBoxes) = Range(alt.unpacked)]_vars

\* The list l begins with the list p.
IsPrefix(p, l) == Len(p) <= Len(l) /\ p = SubSeq(l, 1, Len(p))

\* C35: a Pack call with Limit k > 0 commits the first k placements of the
\* same call with Limit 0, or all of them when there are fewer than k: it
\* returns the first min(k, n) boxes of the unlimited list in the same order,
\* leaves each of them with the position, size and orientation the unlimited
\* call gives it, in the same bin and in the same order within the bin, and
\* changes no other box.
C35_LimitYieldsPrefix ==
    [][last'.op = "Pack" /\ last'.limit > 0 =>
          \E unlimited \in {Pack(packers[last'.target], last'.input, 0, bins, boxes)} :
              /\ last'.packed = SubSeq(unlimited.packed, 1,
                                       min(last'.limit, Len(unlimited.packed)))
              /\ \A x \in BoxIds :
                     boxes'[x] = IF x \in Range(last'.packed)
                                 THEN unlimited.boxes[x]
                                 ELSE boxes[x]
              /\ \A b \in BinIds :
                     /\ IsPrefix(bins'[b].Boxes, unlimited.bins[b].Boxes)
                     /\ Range(bins'[b].Boxes) =
                            Range(bins[b].Boxes) \cup
                                (Range(unlimited.bins[b].Boxes) \cap Range(last'.packed))]_vars

\* A call stopped by Limit 1 after it packed a box in rotated orientation,
\* while another box of its input is still unpacked and the same packer packs
\* it when called again without a limit.
C35_Witness ==
    /\ last.op = "Pack" /\ last.limit = 1
    /\ Len(last.packed) = 1
    /\ <<boxes[last.packed[1]].Width, boxes[last.packed[1]].Height>> # created[last.packed[1]]
    /\ \E x \in Range(last.input) \ {Nil} :
           /\ x # last.packed[1]
           /\ ~boxes[x].Packed
           /\ Pack(packers[last.target], last.input, 0, bins, boxes).packed = <<x>>

\* C36: in every reachable state every box in a bin's placed list has
\* 0 <= X, 0 <= Y, X + Width <= the bin's Width and Y + Height <= the bin's
\* Height, and so has every free rectangle of the bin.
C36_InsideTheBin ==
    \A b \in BinIds :
        /\ \A x \in Placed(b) :
               /\ 0 <= boxes[x].X /\ 0 <= boxes[x].Y
               /\ boxes[x].X + boxes[x].Width <= bins[b].Width
               /\ boxes[x].Y + boxes[x].Height <= bins[b].Height
        /\ \A k \in DOMAIN bins[b].FreeSpaces :
               /\ 0 <= bins[b].FreeSpaces[k].X /\ 0 <= bins[b].FreeSpaces[k].Y
               /\ bins[b].FreeSpaces[k].X + bins[b].FreeSpaces[k].Width <= bins[b].Width
               /\ bins[b].FreeSpaces[k].Y + bins[b].FreeSpaces[k].Height <= bins[b].Height

\* A bin with two placed boxes, one rotated and one away from the origin,
\* and two free rectangles, one reaching the right edge of the bin and one
\* reaching its bottom edge.
C36_Witness ==
    /\ last.op = "Insert" /\ last.ok
    /\ Len(bins[TheBin].Boxes) >= 2
    /\ \E x \in Placed(TheBin) : <<boxes[x].Width, boxes[x].Height>> # created[x]
    /\ \E x \in Placed(TheBin) : boxes[x].X + boxes[x].Y > 0
    /\ \E k \in DOMAIN bins[TheBin].FreeSpaces :
           /\ bins[TheBin].FreeSpaces[k].X > 0
           /\ bins[TheBin].FreeSpaces[k].X + bins[TheBin].FreeSpaces[k].Width = bins[TheBin].Width
    /\ \E k \in DOMAIN bins[TheBin].FreeSpaces :
           /\ bins[TheBin].FreeSpaces[k].Y > 0
           /\ bins[TheBin].FreeSpaces[k].Y + bins[TheBin].FreeSpaces[k].Height = bins[TheBin].Height

\* The places of box x in the placed lists: the pairs of a bin and an index
\* of its Boxes that holds x.
PlacesOf(x) ==
    UNION {{<<b, k>> : k \in {j \in DOMAIN bins[b].Boxes : bins[b].Boxes[j] = x}} : b \in BinIds}

\* C37: after any sequence of Insert and Pack calls, each box is in at most
\* one bin's placed list and at most once in it, and it is in a placed list
\* exactly when its Packed flag is true.
C37_PlacedAtMostOnce ==
    \A x \in BoxIds :
        /\ Cardinality(PlacesOf(x)) <= 1
        /\ boxes[x].Packed <=> PlacesOf(x) # {}

\* A box placed in one bin has just been refused by Insert on another bin,
\* into which it would fit were it not packed.
C37_Witness ==
    /\ last.op = "Insert" /\ ~last.ok /\ ~last.panicked
    /\ last.box # Nil
    /\ boxes[last.box].Packed
    /\ \E b \in BinIds \ {last.target} : last.box \in Placed(b)
    /\ IsLargerThan(bins[last.target], boxes[last.box])

\* The bin b as it was after the first n boxes of its placed list had been
\* inserted: a failed Insert changes nothing, so these are the Insert calls
\* that made the bin, each applied to the box as the caller constructed it.
RECURSIVE BinAfter(_, _)
BinAfter(b, n) ==
    IF n = 0
    THEN NewBin(bins[b].Width, bins[b].Height, bins[b].Placement)
    ELSE Insert(BinAfter(b, n - 1),
                NewBox(created[bins[b].Boxes[n]][1], created[bins[b].Boxes[n]][2],
                       boxes[bins[b].Boxes[n]].ConstrainRotation),
                bins[b].Boxes[n]).bin

\* The free-space list Insert hands to pruneFreeList when it places the box
\* record box (as found, before the call) in the bin record b, the placed
\* box being the record placed.
Unpruned(b, box, placed) ==
    SplitChosen(b.FreeSpaces,
                FindBestPlacement(box, b.FreeSpaces, b.Placement).ChosenSpace, placed, 1)

\* The cells covered by the rectangles of a list.
CellsOf(freeSpaces) == UNION {Cells(freeSpaces[k]) : k \in DOMAIN freeSpaces}

\* C38: in every successful Insert, the list handed to pruneFreeList holds no
\* rectangle twice, each rectangle the prune removes lies within a rectangle
\* that survives it, and the list covers the same cells before and after.
C38_PruneLosesNoArea ==
    [][last'.op = "Insert" /\ last'.ok =>
          \E before \in {Unpruned(bins[last'.target], boxes[last'.box], boxes'[last'.box])} :
              \E after \in {bins'[last'.target].FreeSpaces} :
                  /\ after = pruneFreeList(before)
                  /\ \A i, j \in DOMAIN before : i # j => before[i] # before[j]
                  /\ \A i \in DOMAIN before :
                         before[i] \notin Range(after) =>
                             \E j \in DOMAIN after : Within(before[i], after[j])
                  /\ CellsOf(before) = CellsOf(after)]_vars

\* The last Insert placed a box in a bin that held one already, and its
\* prune removed a rectangle and kept another.
C38_Witness ==
    /\ last.op = "Insert" /\ last.ok
    /\ Len(bins[TheBin].Boxes) >= 2
    /\ BinAfter(TheBin, Len(bins[TheBin].Boxes)) = bins[TheBin]
    /\ \E before \in {Unpruned(BinAfter(TheBin, Len(bins[TheBin].Boxes) - 1),
                               NewBox(created[last.box][1], created[last.box][2],
                                      boxes[last.box].ConstrainRotation),
                               boxes[last.box])} :
           /\ bins[TheBin].FreeSpaces = pruneFreeList(before)
           /\ Len(bins[TheBin].FreeSpaces) < Len(before)
           /\ bins[TheBin].FreeSpaces # <<>>

\* The free rectangle FindBestPlacement chooses for the box record box in the
\* bin record b.
ChosenRect(b, box) ==
    b.FreeSpaces[FindBestPlacement(box, b.FreeSpaces, b.Placement).ChosenSpace]

\* The fragment f is the slice of freeNode below usedNode.
IsBottomSlice(f, freeNode, usedNode) ==
    /\ f.X = freeNode.X /\ f.Width = freeNode.Width
    /\ f.Y = usedNode.Y + usedNode.Height
    /\ f.Y + f.Height = freeNode.Y + freeNode.Height

\* The fragment f is the slice of freeNode to the right of usedNode.
IsRightSlice(f, freeNode, usedNode) ==
    /\ f.Y = freeNode.Y /\ f.Height = freeNode.Height
    /\ f.X = usedNode.X + usedNode.Width
    /\ f.X + f.Width = freeNode.X + freeNode.Width

\* C39: in every successful Insert the box is put at the top-left corner of
\* the chosen free rectangle, and generateSplits replaces that rectangle with
\* at most two fragments, each the bottom or the right slice (never a top or
\* a left one), each within the chosen rectangle and sharing no cell with the
\* placed box.
C39_BottomAndRightOnly ==
    [][last'.op = "Insert" /\ last'.ok =>
          \E chosen \in {ChosenRect(bins[last'.target], boxes[last'.box])} :
              \E fragments \in {generateSplits(chosen, boxes'[last'.box])} :
                  /\ boxes'[last'.box].X = chosen.X
                  /\ boxes'[last'.box].Y = chosen.Y
                  /\ Len(fragments) <= 2
                  /\ \A k \in DOMAIN fragments :
                         /\ \/ IsBottomSlice(fragments[k], chosen, boxes'[last'.box])
                            \/ IsRightSlice(fragments[k], chosen, boxes'[last'.box])
                         /\ fragments[k].Width > 0 /\ fragments[k].Height > 0
                         /\ Within(fragments[k], chosen)
                         /\ Cells(fragments[k]) \cap Cells(boxes'[last'.box]) = {}
                  /\ bins'[last'.target].FreeSpaces =
                         pruneFreeList(Unpruned(bins[last'.target], boxes[last'.box],
                                                boxes'[last'.box]))]_vars

\* The last Insert put a box into a free rectangle that is not the whole bin
\* and is larger than the box in both directions, so that the split made a
\* bottom and a right fragment.
C39_Witness ==
    /\ last.op = "Insert" /\ last.ok
    /\ Len(bins[TheBin].Boxes) >= 2
    /\ BinAfter(TheBin, Len(bins[TheBin].Boxes)) = bins[TheBin]
    /\ \E chosen \in {ChosenRect(BinAfter(TheBin, Len(bins[TheBin].Boxes) - 1),
                                 NewBox(created[last.box][1], created[last.box][2],
                                        boxes[last.box].ConstrainRotation))} :
           /\ chosen.X = boxes[last.box].X /\ chosen.Y = boxes[last.box].Y
           /\ Len(generateSplits(chosen, boxes[last.box])) = 2

====
